---- MODULE Spec2Model ----
(***************************************************************************)
(* Model of app/streamlit_app.py: the data loaders (load_demo, load_csv,   *)
(* both memoized by st.cache_data), the heuristic mapping of a CSV onto    *)
(* the three tables time_df, tag_df and geo_df, the date range filter and  *)
(* the three KPIs.  One script run is one action, as Streamlit reruns the  *)
(* whole script on every interaction.                                      *)
(*                                                                         *)
(* Encoding.  Dates are day numbers counted from 2024-01-01 (day 0).       *)
(* Floating point values are fixed point integers: sentiment in            *)
(* thousandths, lat/lon in hundredths of a degree.  NaT, NaN and NA are    *)
(* the missing-value markers of a datetime, a numeric and a string column. *)
(***************************************************************************)
EXTENDS Integers, Sequences, FiniteSets, TLC

\* ------------------------------------------------------------------ bounds
\* Largest number of data rows of a CSV file whose mapping is examined.
MaxRows == 3
\* Largest number of data rows of a CSV file whose header is examined.
MaxSourceRows == 1
\* Random generator states tried by load_demo are 0..MaxSeed.
MaxSeed == 1

\* --------------------------------------------------------- missing values
NaT == -1
NaN == -1000000
NA == "<NA>"

\* ----------------------------------------------------------------- schema
TimeCols == {"date", "posts", "sentiment"}
TagCols == {"hashtag", "count"}
GeoCols == {"lat", "lon", "region", "engagement"}
AllCols == TimeCols \cup TagCols \cup GeoCols

\* ------------------------------------------------------ sequence helpers
\* The value a cell contributes to a sum that skips missing values.
Val(x) == IF x = NaN THEN 0 ELSE x

RECURSIVE SumRange(_, _, _, _)
\* The sum of the non-missing values of column f in rows lo..hi, by halves.
SumRange(rows, f, lo, hi) ==
    IF lo > hi THEN 0
    ELSE IF lo = hi THEN Val(rows[lo][f])
    ELSE LET mid == (lo + hi) \div 2
         IN  SumRange(rows, f, lo, mid) + SumRange(rows, f, mid + 1, hi)

\* Series.sum(): the sum of the non-missing values of column f (skipna),
\* 0 for an empty column.
SumOf(rows, f) == SumRange(rows, f, 1, Len(rows))

\* Number of non-missing values of column f.
CountOf(rows, f) == Cardinality({i \in DOMAIN rows : rows[i][f] # NaN})

\* Series.mean(): NaN for a column without values, else sum / count
\* (fixed point, rounded towards minus infinity).
MeanOf(rows, f) ==
    IF CountOf(rows, f) = 0 THEN NaN ELSE SumOf(rows, f) \div CountOf(rows, f)

RECURSIVE MinRange(_, _, _)
\* The earliest date of rows lo..hi, NaT when there is none.
MinRange(rows, lo, hi) ==
    IF lo > hi THEN NaT
    ELSE IF lo = hi THEN rows[lo].date
    ELSE LET mid == (lo + hi) \div 2
             a == MinRange(rows, lo, mid)
             b == MinRange(rows, mid + 1, hi)
         IN  IF a = NaT THEN b ELSE IF b = NaT \/ a <= b THEN a ELSE b

RECURSIVE MaxRange(_, _, _)
\* The latest date of rows lo..hi, NaT when there is none.
MaxRange(rows, lo, hi) ==
    IF lo > hi THEN NaT
    ELSE IF lo = hi THEN rows[lo].date
    ELSE LET mid == (lo + hi) \div 2
             a == MaxRange(rows, lo, mid)
             b == MaxRange(rows, mid + 1, hi)
         IN  IF a = NaT THEN b ELSE IF b = NaT \/ a >= b THEN a ELSE b

\* Series.min() / Series.max() of a datetime column: NaT when there is no
\* value, missing values skipped.
DateMin(rows) == MinRange(rows, 1, Len(rows))

DateMax(rows) == MaxRange(rows, 1, Len(rows))

\* ------------------------------------------------------------- load_demo
Periods == 120

\* round(1000 * sin(x)) for x in np.linspace(0, 10, 120).
SinMilli ==
  << 0, 84, 167, 249, 330, 408, 483, 555, 623, 686, 745, 798,
     846, 888, 923, 952, 975, 990, 998, 1000, 994, 981, 962, 935,
     902, 863, 817, 766, 709, 648, 582, 511, 437, 360, 281, 199,
     116, 32, -52, -135, -218, -299, -378, -455, -528, -597, -662, -723,
     -778, -828, -872, -910, -942, -967, -985, -996, -1000, -997, -987, -970,
     -946, -916, -879, -836, -786, -732, -672, -608, -539, -466, -390, -312,
     -231, -148, -65, 19, 103, 186, 268, 348, 425, 500, 571, 638,
     700, 758, 810, 856, 896, 931, 958, 979, 992, 999, 999, 992,
     977, 956, 928, 894, 853, 806, 753, 696, 633, 566, 494, 420,
     342, 262, 180, 97, 13, -71, -154, -237, -318, -396, -472, -544 >>

\* The k-th raw draw of random stream s of the generator in state seed.
Draw(seed, s, k) == (seed * 7919 + s * 104729 + k * 2654435) % 1000003

\* np.random.randint(lo, hi): uniform over lo .. hi-1.
RandInt(lo, hi, seed, s, k) == lo + (Draw(seed, s, k) % (hi - lo))

\* np.random.normal(0, 0.2) in thousandths, one of -3, -1, 0, +1, +3 sigma.
NormalMilli(seed, s, k) ==
    << -600, -200, 0, 200, 600 >>[(Draw(seed, s, k) % 5) + 1]

\* The variant without np.clip.
NoClip(x, lo, hi) == x

\* np.clip(x, lo, hi)
Clip(x, lo, hi) == IF x < lo THEN lo ELSE IF x > hi THEN hi ELSE x

DemoTags ==
    << "#ClimateJustice", "#LossAndDamage", "#NetZero", "#JustTransition",
       "#AirQuality" >>

DemoGeo ==
    << [lat |-> 4071, lon |-> -7400, region |-> "NA-US-NY"],
       [lat |-> 3405, lon |-> -11824, region |-> "NA-US-CA"],
       [lat |-> 5150, lon |-> -12, region |-> "EU-UK-LON"],
       [lat |-> 2861, lon |-> 7721, region |-> "AS-IN-DEL"],
       [lat |-> -3387, lon |-> 15121, region |-> "OC-AU-SYD"] >>

\* load_demo(): the three generated tables for one state of the generator.
load_demo(seed) ==
    [time |-> [i \in 1..Periods |->
                 [date |-> i - 1,
                  posts |-> RandInt(50, 400, seed, 2, i),
                  sentiment |-> Clip(SinMilli[i] + NormalMilli(seed, 1, i),
                                     -1000, 1000)]],
     tag |-> [i \in 1..Len(DemoTags) |->
                 [hashtag |-> DemoTags[i],
                  count |-> RandInt(200, 2000, seed, 3, i)]],
     geo |-> [i \in 1..Len(DemoGeo) |->
                 [lat |-> DemoGeo[i].lat, lon |-> DemoGeo[i].lon,
                  region |-> DemoGeo[i].region,
                  engagement |-> RandInt(100, 3000, seed, 4, i)]]]

\* -------------------------------------------------------------- load_csv
\* The missing-value marker of a column.
NullOf(f) ==
    IF f \in {"hashtag", "region"} THEN NA ELSE IF f = "date" THEN NaT ELSE NaN

\* pd.to_datetime(text, errors="coerce"): the day of an ISO date, NaT for an
\* empty cell and for text that is no date.
to_datetime(text) ==
    CASE text = "2024-01-01" -> 0
      [] text = "2024-01-02" -> 1
      [] text = "2024-01-03" -> 2
      [] text = "2024-01-04" -> 3
      [] OTHER -> NaT

\* The variant that drops the rows whose date does not parse.
load_csv_dropping(file) ==
    LET kept == SelectSeq(file.rows, LAMBDA r : to_datetime(r.date) # NaT)
    IN  [cols |-> file.cols,
         rows |-> [i \in 1..Len(kept) |-> [kept[i] EXCEPT !.date = to_datetime(@)]]]

\* load_csv(path), applied to the content of the file at path.  A file is
\* [cols, rows]: the header and the data rows, a row holding the date cell
\* as text and the other cells as read_csv types them (numbers, NaN for an
\* empty cell).  A column absent from the header holds the missing marker.
load_csv(file) ==
    [cols |-> file.cols,
     rows |-> [i \in 1..Len(file.rows) |->
                 IF "date" \in file.cols
                 THEN [file.rows[i] EXCEPT !.date = to_datetime(@)]
                 ELSE [file.rows[i] EXCEPT !.date = NaT]]]

\* ------------------------------------------------------ heuristic mapping
\* df[cols]: the projection of the rows onto cols.
Project(rows, cols) == [i \in 1..Len(rows) |-> [f \in cols |-> rows[i][f]]]

\* The variant of dropna that looks at the date column only.
dropna_date_only(rows) ==
    SelectSeq(rows, LAMBDA r : "date" \in DOMAIN r => r.date # NaT)

\* The variant of dropna that also loses the first row of the table.
dropna_skip_first(rows) ==
    SelectSeq(IF rows = << >> THEN rows ELSE Tail(rows),
              LAMBDA r : \A f \in DOMAIN r : r[f] # NullOf(f))

\* DataFrame.dropna(): the rows without a missing value, in order.
dropna(rows) ==
    SelectSeq(rows, LAMBDA r : \A f \in DOMAIN r : r[f] # NullOf(f))

\* Collation order of the hashtag labels (groupby sorts its keys).
Collation == << "#A", "#B", "#C", "#D" >>

Rank(h) == CHOOSE i \in DOMAIN Collation : Collation[i] = h

RECURSIVE SortKeys(_)
\* The keys in ascending order.
SortKeys(keys) ==
    IF keys = {} THEN << >>
    ELSE LET k == CHOOSE x \in keys : \A y \in keys : Rank(x) <= Rank(y)
         IN  << k >> \o SortKeys(keys \ {k})

\* The variant that keeps the first count of a group instead of the sum.
groupby_first(rows) ==
    LET keys == SortKeys({rows[i].hashtag : i \in DOMAIN rows} \ {NA})
    IN  [i \in 1..Len(keys) |->
           [hashtag |-> keys[i],
            count |-> SelectSeq(rows, LAMBDA r : r.hashtag = keys[i])[1].count]]

\* groupby("hashtag", as_index=False).sum(): one row per key in key order,
\* rows with a missing key left out, missing counts skipped by the sum.
groupby_sum(rows) ==
    LET keys == SortKeys({rows[i].hashtag : i \in DOMAIN rows} \ {NA})
    IN  [i \in 1..Len(keys) |->
           [hashtag |-> keys[i],
            count |-> SumOf(SelectSeq(rows, LAMBDA r : r.hashtag = keys[i]),
                            "count")]]

\* The variant that wants the time columns for every table.
issubset_time_only(need, cols) == TimeCols \subseteq cols

\* need.issubset(df.columns)
issubset(need, cols) == need \subseteq cols

\* Lines 61-75: the tables after the data source is chosen.  csv says
\* whether a CSV was picked, df is the loaded table then.
HeuristicMapping(demo, csv, df) ==
    [time |-> IF csv /\ issubset(TimeCols, df.cols)
              THEN dropna(Project(df.rows, TimeCols)) ELSE demo.time,
     tag |-> IF csv /\ issubset(TagCols, df.cols)
             THEN groupby_sum(Project(df.rows, TagCols)) ELSE demo.tag,
     geo |-> IF csv /\ issubset(GeoCols, df.cols)
             THEN dropna(Project(df.rows, GeoCols)) ELSE demo.geo]

\* ----------------------------------------------------------- date filter
\* The variant with an exclusive upper bound.
filter_by_date_exclusive(rows, s, e) ==
    SelectSeq(rows, LAMBDA r : r.date # NaT /\ s # NaT /\ e # NaT
                               /\ r.date >= s /\ r.date < e)

\* Comparison of datetimes: False when either side is NaT.
Ge(a, b) == a # NaT /\ b # NaT /\ a >= b
Le(a, b) == a # NaT /\ b # NaT /\ a <= b

\* df[mask]: the rows whose mask entry is True, in order.
BoolIndex(rows, mask) ==
    LET kept == SelectSeq([i \in 1..Len(rows) |-> i], LAMBDA i : mask[i])
    IN  [k \in 1..Len(kept) |-> rows[kept[k]]]

\* time_df[(time_df["date"] >= start) & (time_df["date"] <= end)]
filter_by_date(rows, s, e) ==
    BoolIndex(rows, [i \in 1..Len(rows) |-> Ge(rows[i].date, s) /\ Le(rows[i].date, e)])

\* The values st.sidebar.slider can return for the bounds lo and hi: a pair
\* start <= end inside the bounds, here of the days lo, lo+1 and hi.  For an
\* empty series both bounds are NaT and the pair is the default value.
SliderValues(lo, hi) ==
    IF lo = NaT THEN {<< NaT, NaT >>}
    ELSE LET picks == {lo, lo + 1, hi} \cap (lo..hi)
         IN  {<< s, e >> \in picks \X picks : s <= e}

\* ------------------------------------------------------------------ KPIs
\* The variant of the Top Hashtag metric that sorts ascending.
TopHashtagAscending(rows) ==
    IF rows = << >> THEN {"n/a"}
    ELSE {rows[i].hashtag : i \in {j \in DOMAIN rows :
                                     \A k \in DOMAIN rows : rows[j].count <= rows[k].count}}

\* The variant of the Top Hashtag metric without the emptiness test.
TopHashtagUnguarded(rows) ==
    IF rows = << >> THEN {"IndexError"}
    ELSE {rows[i].hashtag : i \in {j \in DOMAIN rows :
                                     \A k \in DOMAIN rows : rows[j].count >= rows[k].count}}

\* Lines 90-93.  tag_df.sort_values("count", ascending=False).iloc[0] is a
\* row of maximum count; sort_values uses quicksort, which is not stable, so
\* any row of maximum count can come first.  The set of the values the
\* metric can show; "IndexError" stands for the exception of iloc[0] on an
\* empty table.
TopHashtag(rows) ==
    IF rows = << >> THEN {"n/a"}
    ELSE {rows[i].hashtag : i \in {j \in DOMAIN rows :
                                     \A k \in DOMAIN rows : rows[j].count >= rows[k].count}}

\* int(x): ValueError for NaN.
ToInt(x) == IF x = NaN THEN "ValueError" ELSE "ok"

\* ------------------------------------------------------------ the files
\* Data rows a CSV file under /data is made of.
RowPool ==
    { [date |-> "2024-01-01", posts |-> 100, sentiment |-> 500,
       hashtag |-> "#A", count |-> 10,
       lat |-> 4071, lon |-> -7400, region |-> "NA-US-NY", engagement |-> 300],
      [date |-> "2024-01-02", posts |-> NaN, sentiment |-> 300,
       hashtag |-> NA, count |-> 5,
       lat |-> 5150, lon |-> -12, region |-> NA, engagement |-> 120],
      [date |-> "soon", posts |-> 70, sentiment |-> -200,
       hashtag |-> "#B", count |-> 10,
       lat |-> 2861, lon |-> 7721, region |-> "AS-IN-DEL", engagement |-> 40],
      [date |-> "2024-01-03", posts |-> 80, sentiment |-> 250,
       hashtag |-> "#B", count |-> NaN,
       lat |-> NaN, lon |-> 15121, region |-> "OC-AU-SYD", engagement |-> 90],
      [date |-> "2024-01-03", posts |-> 60, sentiment |-> NaN,
       hashtag |-> "#A", count |-> 5,
       lat |-> 3405, lon |-> -11824, region |-> "NA-US-CA", engagement |-> NaN] }

\* Data rows of the files of the long-running process and of the files
\* whose header is examined: a complete row and one with a bad date.
ProcPool == {r \in RowPool : r.date \in {"2024-01-01", "soon"}}

\* Headers a CSV file can have: every schema, each schema alone, two
\* schemas, no schema at all, and the tag schema without a date column.
Headers ==
    { AllCols, TimeCols, TagCols, GeoCols, TimeCols \cup TagCols,
      {"date", "posts", "hashtag", "lat", "lon", "region"},
      {"posts", "sentiment", "hashtag", "count"} }

\* The sequences over S of length at most n.
SeqUpTo(S, n) == UNION {[1..k -> S] : k \in 0..n}

\* The file with header cols and the cells of rows that are under it.
FileOf(cols, rows) ==
    [cols |-> cols,
     rows |-> [i \in 1..Len(rows) |->
                 [f \in AllCols |->
                    IF f \in cols THEN rows[i][f]
                    ELSE IF f = "date" THEN "" ELSE NullOf(f)]]]

\* Files with every column and up to MaxRows rows.
NormFiles == {FileOf(AllCols, rs) : rs \in SeqUpTo(RowPool, MaxRows)}

\* Files with every header and up to MaxSourceRows rows.
SourceFiles ==
    {FileOf(c, rs) : c \in Headers, rs \in SeqUpTo(ProcPool, MaxSourceRows)}

\* The files somebody puts under /data while the process runs.
ProcFiles == {FileOf(AllCols, << r >>) : r \in ProcPool}

Seeds == 0..MaxSeed

\* ---------------------------------------------------------------- state
VARIABLES
    fs,             \* path -> content of the CSV file under /data
    demo_memo,      \* st.cache_data of load_demo: << >> or << tables >>
    csv_memo,       \* st.cache_data of load_csv: path -> loaded table
    use_demo,       \* the radio of the last run
    choice,         \* the selectbox of the last run
    df_real,        \* the table load_csv returned in the last run
    time_df,        \* time_df after line 75
    tag_df,         \* tag_df after line 75
    geo_df,         \* geo_df after line 75
    date_min,       \* line 79
    date_max,       \* line 80
    start,          \* the slider's value
    end,
    time_view,      \* time_df after line 84
    total_posts,    \* the KPIs
    avg_sentiment,
    top_hashtag,
    tag_panel,      \* what the hashtag section shows
    geo_panel,      \* what the map section shows
    status          \* "idle" before the first run, then "ok" or the exception

vars ==
    << fs, demo_memo, csv_memo, use_demo, choice, df_real, time_df, tag_df,
       geo_df, date_min, date_max, start, end, time_view, total_posts,
       avg_sentiment, top_hashtag, tag_panel, geo_panel, status >>

NoDf == [cols |-> {}, rows |-> << >>]

\* The state of a process that has not run the script yet.
Idle ==
    /\ demo_memo = << >>
    /\ csv_memo = << >>
    /\ use_demo = "" /\ choice = "" /\ df_real = NoDf
    /\ time_df = << >> /\ tag_df = << >> /\ geo_df = << >>
    /\ date_min = NaT /\ date_max = NaT /\ start = NaT /\ end = NaT
    /\ time_view = << >>
    /\ total_posts = 0 /\ avg_sentiment = NaN /\ top_hashtag = ""
    /\ tag_panel = "" /\ geo_panel = ""
    /\ status = "idle"

Init == fs \in [{"a.csv", "b.csv"} -> ProcFiles] /\ Idle

InitNorm == fs \in [{"trends.csv"} -> NormFiles] /\ Idle

InitSource == fs \in [{"trends.csv"} -> SourceFiles] /\ Idle

\* ------------------------------------------------------------- memoizing
\* The variant of st.cache_data that calls the function every time.
UncachedCsv(memo, files, path) == load_csv(files[path])

\* @st.cache_data on load_csv: the stored result for a known path, the
\* function's result for a new one.
CachedCsv(memo, files, path) ==
    IF path \in DOMAIN memo THEN memo[path] ELSE load_csv(files[path])

\* ------------------------------------------------------------ script run
\* Lines 61-163 of one run: radio is the data source, pick the chosen file
\* name, demo the result of load_demo() and df the result of load_csv.
Script(radio, pick, demo, df) ==
    \E t \in {HeuristicMapping(demo, radio = "CSV from /data" /\ pick # "(none)", df)} :
    \E lo \in {DateMin(t.time)}, hi \in {DateMax(t.time)} :
        /\ use_demo' = radio
        /\ choice' = pick
        /\ df_real' = df
        /\ time_df' = t.time /\ tag_df' = t.tag /\ geo_df' = t.geo
        /\ date_min' = lo /\ date_max' = hi
        /\ \E se \in SliderValues(lo, hi) :
           \E view \in {filter_by_date(t.time, se[1], se[2])} :
           \E posts \in {SumOf(view, "posts")} :
                 /\ start' = se[1] /\ end' = se[2]
                 /\ time_view' = view
                 /\ total_posts' = posts
                 /\ avg_sentiment' = MeanOf(view, "sentiment")
                 /\ \E top \in TopHashtag(t.tag) :
                      /\ top_hashtag' = top
                      /\ status' = IF ToInt(posts) # "ok" THEN ToInt(posts)
                                   ELSE IF top = "IndexError" THEN top ELSE "ok"
                      /\ tag_panel' = IF status' # "ok" THEN ""
                                      ELSE IF t.tag # << >> THEN "chart" ELSE "info"
                      /\ geo_panel' = IF status' # "ok" THEN ""
                                      ELSE IF t.geo # << >> THEN "map" ELSE "info"

\* load_demo() under @st.cache_data: the memoized tables, or, on the first
\* call, the tables of some state of the random generator.
CachedDemo(memo) ==
    IF memo # << >> THEN {memo[1]} ELSE {load_demo(seed) : seed \in Seeds}

\* A run with the radio on "Demo (built-in)".
RunDemo ==
    /\ \E demo \in CachedDemo(demo_memo) :
         /\ demo_memo' = << demo >>
         /\ Script("Demo (built-in)", "(none)", demo, NoDf)
    /\ UNCHANGED << fs, csv_memo >>

\* A run with the radio on "CSV from /data" and no file picked.
RunCsvNone ==
    /\ \E demo \in CachedDemo(demo_memo) :
         /\ demo_memo' = << demo >>
         /\ Script("CSV from /data", "(none)", demo, NoDf)
    /\ UNCHANGED << fs, csv_memo >>

\* A run with the radio on "CSV from /data" and the file path picked.
RunCsv(path) ==
    /\ \E demo \in CachedDemo(demo_memo), df \in {CachedCsv(csv_memo, fs, path)} :
         /\ demo_memo' = << demo >>
         /\ csv_memo' = [p \in DOMAIN csv_memo \cup {path} |->
                           IF p = path THEN df ELSE csv_memo[p]]
         /\ Script("CSV from /data", path, demo, df)
    /\ UNCHANGED fs

\* Somebody replaces a file under /data.
FileChange(path, file) ==
    /\ file # fs[path]
    /\ fs' = [fs EXCEPT ![path] = file]
    /\ UNCHANGED << demo_memo, csv_memo, use_demo, choice, df_real, time_df,
                    tag_df, geo_df, date_min, date_max, start, end, time_view,
                    total_posts, avg_sentiment, top_hashtag, tag_panel,
                    geo_panel, status >>

Next ==
    \/ RunDemo
    \/ RunCsvNone
    \/ \E path \in DOMAIN fs : RunCsv(path)
    \/ \E path \in DOMAIN fs, file \in ProcFiles : FileChange(path, file)

Spec == Init /\ [][Next]_vars

\* One file that nobody changes, every data source.
NextSource ==
    \/ RunDemo
    \/ RunCsvNone
    \/ \E path \in DOMAIN fs : RunCsv(path)

SpecSource == InitSource /\ [][NextSource]_vars

\* One file that nobody changes, always picked.
NextNorm == \E path \in DOMAIN fs : RunCsv(path)

SpecNorm == InitNorm /\ [][NextNorm]_vars

\* ============================================================ properties
\* The script has run at least once.
Ran == status # "idle"

\* The last run loaded a CSV file.
UsedCsv == use_demo = "CSV from /data" /\ choice # "(none)"

\* The k-th smallest member of the set S of row numbers.
KthOf(S, k) == CHOOSE i \in S : Cardinality({j \in S : j <= i}) = k

RECURSIVE SumOver(_, _, _)
\* The sum of the non-missing values of column f over the rows numbered in S.
SumOver(rows, f, S) ==
    IF S = {} THEN 0
    ELSE LET i == CHOOSE x \in S : TRUE
         IN  Val(rows[i][f]) + SumOver(rows, f, S \ {i})

\* ------------------------------------------------------------------- C1
\* The rows of the loaded table that have a value in each time column.
TimeComplete ==
    {i \in DOMAIN df_real.rows :
        /\ df_real.rows[i].date # NaT
        /\ df_real.rows[i].posts # NaN
        /\ df_real.rows[i].sentiment # NaN}

\* C1: when a CSV is loaded that has the columns date, posts and sentiment,
\* time_df is the projection onto these columns of exactly the loaded rows
\* that have no missing value in any of the three, in their order, and it
\* is not the generated table.
C1_TimeSeriesProjection ==
    (Ran /\ UsedCsv /\ TimeCols \subseteq df_real.cols) =>
        /\ Len(time_df) = Cardinality(TimeComplete)
        /\ \A k \in 1..Len(time_df) :
             LET r == df_real.rows[KthOf(TimeComplete, k)]
             IN  time_df[k] = [date |-> r.date, posts |-> r.posts,
                               sentiment |-> r.sentiment]
        /\ time_df # demo_memo[1].time

\* A loaded file of which one row was dropped for a missing time value and
\* one row was kept although its count and latitude are missing.
C1_Witness ==
    /\ Ran /\ UsedCsv /\ TimeCols \subseteq df_real.cols
    /\ Len(time_df) < Len(df_real.rows)
    /\ \E i \in TimeComplete :
         df_real.rows[i].count = NaN /\ df_real.rows[i].lat = NaN

\* ------------------------------------------------------------------- C2
\* A table of hashtag counts as a set of (hashtag, count) pairs.
AsMap(t) == {<< t[k].hashtag, t[k].count >> : k \in DOMAIN t}

\* The rows in the order p, a permutation of the row numbers.
Permute(rows, p) == [i \in DOMAIN rows |-> rows[p[i]]]

\* C2: when a CSV with the columns hashtag and count is loaded, tag_df has
\* one row per distinct hashtag of the file, its count is the sum of the
\* counts of the rows with that hashtag, and the mapping from hashtag to
\* count is the same for every order of the rows.  (A row without a hashtag
\* belongs to no group.)
C2_HashtagSums ==
    (Ran /\ UsedCsv /\ TagCols \subseteq df_real.cols) =>
        LET rows == df_real.rows
            keys == {rows[i].hashtag : i \in DOMAIN rows} \ {NA}
        IN  /\ Len(tag_df) = Cardinality(keys)
            /\ {tag_df[k].hashtag : k \in DOMAIN tag_df} = keys
            /\ \A k \in DOMAIN tag_df :
                 tag_df[k].count =
                   SumOver(rows, "count",
                           {i \in DOMAIN rows : rows[i].hashtag = tag_df[k].hashtag})
            /\ \A p \in Permutations(DOMAIN rows) :
                 AsMap(HeuristicMapping(demo_memo[1], TRUE,
                                        [cols |-> df_real.cols,
                                         rows |-> Permute(rows, p)]).tag)
                   = AsMap(tag_df)

\* Three rows, two of them with the same hashtag and different counts, are
\* summed into two rows.
C2_Witness ==
    /\ Ran /\ UsedCsv /\ TagCols \subseteq df_real.cols
    /\ Len(df_real.rows) = 3 /\ Len(tag_df) = 2
    /\ \E i, j \in DOMAIN df_real.rows :
         /\ i # j
         /\ df_real.rows[i].hashtag = df_real.rows[j].hashtag
         /\ df_real.rows[i].hashtag # NA
         /\ df_real.rows[i].count # NaN /\ df_real.rows[j].count # NaN
         /\ df_real.rows[i].count # df_real.rows[j].count

\* ------------------------------------------------------------------- C3
\* The table was taken from the loaded CSV: its rows are projections of
\* loaded rows (its hashtags are hashtags of loaded rows).
TimeFromCsv ==
    \A k \in DOMAIN time_df :
        \E i \in DOMAIN df_real.rows :
            time_df[k] = [f \in TimeCols |-> df_real.rows[i][f]]

TagFromCsv ==
    \A k \in DOMAIN tag_df :
        \E i \in DOMAIN df_real.rows : tag_df[k].hashtag = df_real.rows[i].hashtag

GeoFromCsv ==
    \A k \in DOMAIN geo_df :
        \E i \in DOMAIN df_real.rows :
            geo_df[k] = [f \in GeoCols |-> df_real.rows[i][f]]

\* C3: each of the three tables is decided on its own.  A table comes from
\* the CSV exactly when a file is picked whose header has all the columns
\* of that table; otherwise (columns missing, no file picked, demo mode) it
\* is the generated table, unchanged.
C3_PerTableReplacement ==
    Ran =>
        /\ demo_memo # << >>
        /\ (UsedCsv => df_real.cols = fs[choice].cols)
        /\ IF UsedCsv /\ TimeCols \subseteq fs[choice].cols
           THEN time_df # demo_memo[1].time /\ TimeFromCsv
           ELSE time_df = demo_memo[1].time
        /\ IF UsedCsv /\ TagCols \subseteq fs[choice].cols
           THEN tag_df # demo_memo[1].tag /\ TagFromCsv
           ELSE tag_df = demo_memo[1].tag
        /\ IF UsedCsv /\ GeoCols \subseteq fs[choice].cols
           THEN geo_df # demo_memo[1].geo /\ GeoFromCsv
           ELSE geo_df = demo_memo[1].geo

\* One file replaced two tables at once and the third kept its default.
C3_Witness ==
    /\ Ran /\ UsedCsv
    /\ fs[choice].cols = TimeCols \cup TagCols
    /\ time_df # demo_memo[1].time /\ Len(time_df) = 1
    /\ tag_df # demo_memo[1].tag /\ Len(tag_df) = 1
    /\ geo_df = demo_memo[1].geo

\* ------------------------------------------------------------------- C4
\* Days a range can start or end on.
RangeDays == 0..3

\* C4: the range filter returns exactly the rows with start <= date <= end
\* in their order, for the slider's value and for every other pair of days:
\* nothing when start > end, everything when start and end are the earliest
\* and the latest date of the series.
C4_RangeFilter ==
    Ran =>
        /\ time_view = SelectSeq(time_df, LAMBDA r : start <= r.date /\ r.date <= end)
        /\ \A s, e \in RangeDays \cup ({date_min, date_max} \ {NaT}) :
             LET out == filter_by_date(time_df, s, e)
             IN  /\ out = SelectSeq(time_df, LAMBDA r : s <= r.date /\ r.date <= e)
                 /\ (s > e => out = << >>)
                 /\ (s = date_min /\ e = date_max => out = time_df)

\* The slider's range kept some rows of the series and left out others.
C4_Witness ==
    /\ Ran
    /\ Len(time_view) > 0 /\ Len(time_view) < Len(time_df)
    /\ \E k \in DOMAIN time_df : time_df[k].date = end
    /\ \E k \in DOMAIN time_df : time_df[k].date > end

\* ------------------------------------------------------------------- C5
\* The rows of tag_df with the largest count.
TopRows == {i \in DOMAIN tag_df : \A k \in DOMAIN tag_df : tag_df[i].count >= tag_df[k].count}

\* C5 as stated: the top hashtag belongs to the first row, in the order of
\* tag_df, among those with the largest count; "n/a" for an empty tag_df.
C5_FirstOfTies ==
    Ran =>
        top_hashtag = IF tag_df = << >> THEN "n/a"
                      ELSE tag_df[KthOf(TopRows, 1)].hashtag

\* C5, amended: the top hashtag belongs to a row with the largest count,
\* and it is "n/a", without an error, exactly for an empty tag_df.
C5_TopHashtag ==
    Ran =>
        /\ status = "ok"
        /\ IF tag_df = << >> THEN top_hashtag = "n/a"
           ELSE \E i \in TopRows : top_hashtag = tag_df[i].hashtag

\* Two hashtags share the largest count and the second one is shown.
C5_Witness ==
    /\ Ran /\ UsedCsv /\ Len(tag_df) = 2
    /\ tag_df[1].count = tag_df[2].count
    /\ top_hashtag = tag_df[2].hashtag

\* ------------------------------------------------------------------- C6
\* The rows of the picked file whose date cell is no date.
BadDateRows == {i \in DOMAIN fs[choice].rows : to_datetime(fs[choice].rows[i].date) = NaT}

\* The rows of the picked file with a value in each geo column.
GeoCompleteRows ==
    {i \in DOMAIN fs[choice].rows :
        \A f \in GeoCols : fs[choice].rows[i][f] # NullOf(f)}

\* C6: load_csv keeps every row of the file; a date that does not parse
\* becomes NaT and the other cells are untouched.  Such a row is missing
\* from time_df, while tag_df and geo_df are what the rows of the file give
\* whatever their dates are.
C6_BadDateKept ==
    (Ran /\ UsedCsv /\ AllCols \subseteq fs[choice].cols) =>
        LET file == fs[choice].rows
        IN  /\ Len(df_real.rows) = Len(file)
            /\ \A i \in DOMAIN file :
                 /\ df_real.rows[i].date = to_datetime(file[i].date)
                 /\ \A f \in AllCols \ {"date"} : df_real.rows[i][f] = file[i][f]
            /\ \A k \in DOMAIN time_df : time_df[k].date # NaT
            /\ Len(time_df) <= Len(file) - Cardinality(BadDateRows)
            /\ \A k \in DOMAIN tag_df :
                 tag_df[k].count =
                   SumOver(file, "count",
                           {i \in DOMAIN file : file[i].hashtag = tag_df[k].hashtag})
            /\ \A i \in DOMAIN file :
                 file[i].hashtag # NA =>
                   \E k \in DOMAIN tag_df : tag_df[k].hashtag = file[i].hashtag
            /\ Len(geo_df) = Cardinality(GeoCompleteRows)
            /\ \A k \in DOMAIN geo_df :
                 geo_df[k] = [f \in GeoCols |-> file[KthOf(GeoCompleteRows, k)][f]]

\* A file whose only row with the hashtag "#B" has a date that does not
\* parse: the row is loaded, absent from time_df, counted in tag_df and
\* present in geo_df.
C6_Witness ==
    /\ Ran /\ UsedCsv /\ AllCols \subseteq fs[choice].cols
    /\ Len(df_real.rows) = 2 /\ Len(time_df) = 1
    /\ \E i \in BadDateRows :
         /\ fs[choice].rows[i].hashtag = "#B"
         /\ i \in GeoCompleteRows
         /\ df_real.rows[i].date = NaT
         /\ \E k \in DOMAIN tag_df :
              tag_df[k].hashtag = "#B" /\ tag_df[k].count = fs[choice].rows[i].count
    /\ Len(geo_df) = 2

C8_DemoShape ==
    demo_memo # << >> =>
        LET d == demo_memo[1]
        IN  /\ Len(d.time) = 120 /\ Len(d.tag) = 5 /\ Len(d.geo) = 5
            /\ \A i \in DOMAIN d.time :
                 /\ d.time[i].date = i - 1
                 /\ -1000 <= d.time[i].sentiment /\ d.time[i].sentiment <= 1000
                 /\ 50 <= d.time[i].posts /\ d.time[i].posts < 400
            /\ \A i \in DOMAIN d.tag : 200 <= d.tag[i].count /\ d.tag[i].count < 2000
            /\ \A i \in DOMAIN d.geo :
                 100 <= d.geo[i].engagement /\ d.geo[i].engagement < 3000

\* Generated tables in which a sentiment was cut off at +1 and one at -1.
C8_Witness ==
    /\ demo_memo # << >>
    /\ \E i \in DOMAIN demo_memo[1].time :
         demo_memo[1].time[i].sentiment = 1000 /\ SinMilli[i] < 1000
    /\ \E i \in DOMAIN demo_memo[1].time :
         demo_memo[1].time[i].sentiment = -1000 /\ SinMilli[i] > -1000

\* ------------------------------------------------------------------- C9
\* C9: mapping a table that has exactly the columns date, posts and
\* sentiment and is itself a mapped time_df gives the same table, row for
\* row.
C9_Idempotent ==
    (Ran /\ UsedCsv /\ TimeCols \subseteq df_real.cols) =>
        HeuristicMapping(demo_memo[1], TRUE,
                         [cols |-> TimeCols, rows |-> time_df]).time = time_df

\* A mapped time_df of two rows that lost a row of the file.
C9_Witness ==
    /\ Ran /\ UsedCsv /\ TimeCols \subseteq df_real.cols
    /\ Len(time_df) = 2 /\ Len(df_real.rows) = 3

\* ------------------------------------------------------------------ C10
\* C10: a memoized result never changes and is never dropped, whatever
\* happens to the file, and a run that asks for a memoized path gets the
\* memoized table.
C10_MemoStable ==
    [][ /\ (demo_memo # << >> => demo_memo' = demo_memo)
        /\ \A p \in DOMAIN csv_memo :
             p \in DOMAIN csv_memo' /\ csv_memo'[p] = csv_memo[p]
        /\ (UsedCsv' /\ choice' \in DOMAIN csv_memo => df_real' = csv_memo[choice']) ]_vars

\* A run got the memoized table of a file that has changed since.
C10_Witness ==
    /\ Ran /\ UsedCsv
    /\ choice \in DOMAIN csv_memo
    /\ df_real = csv_memo[choice]
    /\ df_real # load_csv(fs[choice])

====
